---- MODULE Spec2Model ----
(***************************************************************************)
(* semver-intersect: the intersection of semver ranges.                    *)
(*                                                                         *)
(* A JavaScript string is modelled as a sequence of tokens (TLA+ strings): *)
(* a number ("0", "12"), an alphanumeric pre-release identifier ("alpha"), *)
(* a comparison operator (">=", "<"), or one of "." "-" " " "||" "^" "~"   *)
(* "*".  The empty string and undefined are both the empty sequence (the   *)
(* code tests them with !bound and defaults undefined to '').              *)
(***************************************************************************)
EXTENDS Integers, Sequences, FiniteSets, TLC

VARIABLES pc, args, rangeUnions, index, boundsUnion, intermediate, error, result

vars == <<pc, args, rangeUnions, index, boundsUnion, intermediate, error, result>>

(***************************************************************************)
(* Bounds of the model.                                                    *)
(***************************************************************************)
MaxMajor == 1
MaxMinor == 1
MaxPatch == 1

NumLimit == MaxMajor + MaxMinor + 3

(***************************************************************************)
(* Tokens.                                                                 *)
(***************************************************************************)
NumTok == [n \in 0..NumLimit |-> ToString(n)]
NumToks == {NumTok[n] : n \in 0..NumLimit}
IsNum(t) == t \in NumToks
Val(t) == CHOOSE n \in 0..NumLimit : NumTok[n] = t

\* The alphanumeric identifiers of the model, in JavaScript string order.
AlnumIds == <<"X", "alpha", "beta", "beta2", "x">>
AlnumToks == {AlnumIds[i] : i \in 1..Len(AlnumIds)}
Rank(t) == CHOOSE i \in 1..Len(AlnumIds) : AlnumIds[i] = t

\* \w tokens, and the tokens of [<=>]+
WordToks == NumToks \cup AlnumToks
CondToks == {"<", "<=", ">", ">=", "="}

Tail2(s, i) == IF i > Len(s) THEN <<>> ELSE SubSeq(s, i, Len(s))

RECURSIVE Join(_, _)
Join(ss, sep) ==
    IF Len(ss) = 0 THEN <<>>
    ELSE IF Len(ss) = 1 THEN ss[1]
    ELSE ss[1] \o sep \o Join(Tail(ss), sep)

\* String.prototype.split on a one-token separator: always at least one part.
RECURSIVE Split(_, _)
Split(s, sep) ==
    IF \A i \in 1..Len(s) : s[i] # sep THEN <<s>>
    ELSE LET i == CHOOSE k \in 1..Len(s) : s[k] = sep /\ \A j \in 1..(k-1) : s[j] # sep
         IN  <<SubSeq(s, 1, i - 1)>> \o Split(Tail2(s, i + 1), sep)

RECURSIVE Trim(_)
Trim(s) ==
    IF Len(s) > 0 /\ s[1] = " " THEN Trim(Tail(s))
    ELSE IF Len(s) > 0 /\ s[Len(s)] = " " THEN Trim(SubSeq(s, 1, Len(s) - 1))
    ELSE s

(***************************************************************************)
(* The version-comparison collaborator (the semver package), as the code   *)
(* consumes it.                                                            *)
(***************************************************************************)
\* MAJOR.MINOR.PATCH
IsMainVersion(v) ==
    /\ Len(v) = 5
    /\ IsNum(v[1]) /\ v[2] = "." /\ IsNum(v[3]) /\ v[4] = "." /\ IsNum(v[5])

\* MAJOR.MINOR.PATCH(-ID(.ID)*)?
IsFullVersion(v) ==
    \/ IsMainVersion(v)
    \/ /\ Len(v) >= 7 /\ Len(v) % 2 = 1
       /\ IsMainVersion(SubSeq(v, 1, 5))
       /\ v[6] = "-"
       /\ \A i \in 7..Len(v) : IF i % 2 = 1 THEN v[i] \in WordToks ELSE v[i] = "."

SemVer(v) ==
    [major |-> Val(v[1]), minor |-> Val(v[3]), patch |-> Val(v[5]),
     prerelease |-> [i \in 1..((Len(v) - 5) \div 2) |-> v[5 + 2 * i]]]

VersionString(sv) ==
    <<NumTok[sv.major], ".", NumTok[sv.minor], ".", NumTok[sv.patch]>>
    \o (IF Len(sv.prerelease) = 0 THEN <<>>
        ELSE <<"-">> \o Join([i \in 1..Len(sv.prerelease) |-> <<sv.prerelease[i]>>], <<".">>))

semverMajor(v) == SemVer(v).major
semverMinor(v) == SemVer(v).minor
semverPrerelease(v) == SemVer(v).prerelease

compareIdentifiers(a, b) ==
    IF a = b THEN 0
    ELSE IF IsNum(a) /\ IsNum(b) THEN (IF Val(a) < Val(b) THEN -1 ELSE 1)
    ELSE IF IsNum(a) THEN -1
    ELSE IF IsNum(b) THEN 1
    ELSE IF Rank(a) < Rank(b) THEN -1 ELSE 1

compareMain(a, b) ==
    IF a.major # b.major THEN (IF a.major < b.major THEN -1 ELSE 1)
    ELSE IF a.minor # b.minor THEN (IF a.minor < b.minor THEN -1 ELSE 1)
    ELSE IF a.patch # b.patch THEN (IF a.patch < b.patch THEN -1 ELSE 1)
    ELSE 0

RECURSIVE compareIds(_, _, _)
compareIds(p, q, i) ==
    IF i > Len(p) /\ i > Len(q) THEN 0
    ELSE IF i > Len(q) THEN 1
    ELSE IF i > Len(p) THEN -1
    ELSE IF p[i] = q[i] THEN compareIds(p, q, i + 1)
    ELSE compareIdentifiers(p[i], q[i])

comparePre(a, b) ==
    IF Len(a.prerelease) > 0 /\ Len(b.prerelease) = 0 THEN -1
    ELSE IF Len(a.prerelease) = 0 /\ Len(b.prerelease) > 0 THEN 1
    ELSE compareIds(a.prerelease, b.prerelease, 1)

compare(a, b) == IF compareMain(a, b) # 0 THEN compareMain(a, b) ELSE comparePre(a, b)

semverLt(v, w) == compare(SemVer(v), SemVer(w)) < 0
semverGt(v, w) == compare(SemVer(v), SemVer(w)) > 0
semverEq(v, w) == compare(SemVer(v), SemVer(w)) = 0

cmp(a, op, b) ==
    CASE op = "" -> compare(a, b) = 0
      [] op = ">" -> compare(a, b) > 0
      [] op = ">=" -> compare(a, b) >= 0
      [] op = "<" -> compare(a, b) < 0
      [] op = "<=" -> compare(a, b) <= 0

\* A comparator of a parsed range; any: the comparator of '*' and of '', whose
\* value is the empty string.
Comp(op, sv) == [operator |-> op, any |-> FALSE, semver |-> sv]
Main(M, m, p) == [major |-> M, minor |-> m, patch |-> p, prerelease |-> <<>>]
AnyComparator == [operator |-> "", any |-> TRUE, semver |-> Main(0, 0, 0)]

ComparatorValue(c) == IF c.any THEN <<>> ELSE (IF c.operator = "" THEN <<>> ELSE <<c.operator>>) \o VersionString(c.semver)

Parsed(cs) == [valid |-> TRUE, comps |-> cs]
Invalid == [valid |-> FALSE, comps |-> <<>>]

XToks == {"x", "X", "*"}

\* ^M.m.p(-pr): the left-most non-zero component may not change.
replaceCaret(v) ==
    LET sv == SemVer(v)
    IN  <<Comp(">=", sv),
          Comp("<", IF sv.major # 0 THEN Main(sv.major + 1, 0, 0)
                    ELSE IF sv.minor # 0 THEN Main(0, sv.minor + 1, 0)
                    ELSE Main(0, 0, sv.patch + 1))>>

\* ~M.m.p(-pr): the minor may not change.
replaceTilde(v) ==
    LET sv == SemVer(v)
    IN  <<Comp(">=", sv), Comp("<", Main(sv.major, sv.minor + 1, 0))>>

\* One whitespace-separated comparator of a raw range, desugared.
parseComparator(c) ==
    IF c = <<>> \/ (Len(c) = 1 /\ c[1] \in XToks) THEN Parsed(<<AnyComparator>>)
    ELSE IF c[1] = "^" /\ IsFullVersion(Tail(c)) THEN Parsed(replaceCaret(Tail(c)))
    ELSE IF c[1] = "~" /\ IsFullVersion(Tail(c)) THEN Parsed(replaceTilde(Tail(c)))
    ELSE IF c[1] \in CondToks /\ IsFullVersion(Tail(c))
        THEN Parsed(<<Comp(IF c[1] = "=" THEN "" ELSE c[1], SemVer(Tail(c)))>>)
    ELSE IF IsFullVersion(c) THEN Parsed(<<Comp("", SemVer(c))>>)
    ELSE IF IsNum(c[1]) /\ (Len(c) = 1 \/ (Len(c) = 3 /\ c[2] = "." /\ c[3] \in XToks))
        THEN Parsed(<<Comp(">=", Main(Val(c[1]), 0, 0)), Comp("<", Main(Val(c[1]) + 1, 0, 0))>>)
    ELSE IF /\ Len(c) \in {3, 5} /\ IsNum(c[1]) /\ c[2] = "." /\ IsNum(c[3])
            /\ Len(c) = 5 => (c[4] = "." /\ c[5] \in XToks)
        THEN Parsed(<<Comp(">=", Main(Val(c[1]), Val(c[3]), 0)),
                      Comp("<", Main(Val(c[1]), Val(c[3]) + 1, 0))>>)
    ELSE Invalid

RECURSIVE parseComparators(_)
parseComparators(cs) ==
    IF Len(cs) = 0 THEN Parsed(<<>>)
    ELSE LET h == parseComparator(cs[1])
             t == parseComparators(Tail(cs))
         IN  IF h.valid /\ t.valid THEN Parsed(h.comps \o t.comps) ELSE Invalid

\* A - B
IsHyphenRange(m) ==
    \E i \in 1..Len(m) :
        /\ i + 2 < Len(m) /\ m[i] = " " /\ m[i + 1] = "-" /\ m[i + 2] = " "
        /\ IsFullVersion(SubSeq(m, 1, i - 1)) /\ IsFullVersion(Tail2(m, i + 3))

hyphenReplace(m) ==
    LET i == CHOOSE k \in 1..Len(m) :
                 /\ k + 2 < Len(m) /\ m[k] = " " /\ m[k + 1] = "-" /\ m[k + 2] = " "
                 /\ IsFullVersion(SubSeq(m, 1, k - 1)) /\ IsFullVersion(Tail2(m, k + 3))
    IN  <<Comp(">=", SemVer(SubSeq(m, 1, i - 1))), Comp("<=", SemVer(Tail2(m, i + 3)))>>

\* One '||' member of a raw range.
parseMember(m) ==
    IF IsHyphenRange(m) THEN Parsed(hyphenReplace(m))
    ELSE parseComparators(Split(m, " "))

\* new Range(raw): set is the sequence of comparator sets; not valid when the
\* constructor throws.
parseMembers(ms) == [i \in 1..Len(ms) |-> parseMember(Trim(ms[i]))]

RangeOf(ps) ==
    [valid |-> \A i \in 1..Len(ps) : ps[i].valid,
     set |-> [i \in 1..Len(ps) |-> ps[i].comps]]

Range(raw) == RangeOf(parseMembers(Split(raw, "||")))

\* Range.prototype.format
RangeString(r) ==
    Trim(Join([i \in 1..Len(r.set) |->
                  Trim(Join([j \in 1..Len(r.set[i]) |-> ComparatorValue(r.set[i][j])], <<" ">>))],
              <<"||">>))

\* semver.validRange: null for an invalid range, '*' for an empty rendering.
OrStar(str) == IF str = <<>> THEN <<"*">> ELSE str

validRangeOf(r) ==
    IF ~r.valid THEN [null |-> TRUE, str |-> <<>>]
    ELSE [null |-> FALSE, str |-> OrStar(RangeString(r))]

semverValidRange(raw) == validRangeOf(Range(raw))

test(c, sv) == c.any \/ cmp(sv, c.operator, c.semver)

\* A version with a pre-release tag satisfies a comparator set only if some
\* comparator of the set has a pre-release tag on the same MAJOR.MINOR.PATCH.
testSet(set, sv) ==
    /\ \A i \in 1..Len(set) : test(set[i], sv)
    /\ Len(sv.prerelease) > 0 =>
           \E i \in 1..Len(set) :
               /\ ~set[i].any
               /\ Len(set[i].semver.prerelease) > 0
               /\ compareMain(set[i].semver, sv) = 0

rangeTest(r, sv) == r.valid /\ \E i \in 1..Len(r.set) : testSet(r.set[i], sv)

semverSatisfies(version, range) == IsFullVersion(version) /\ rangeTest(Range(range), SemVer(version))

comparatorIntersects(a, b) ==
    IF a.operator = "" THEN
        (IF a.any THEN TRUE
         ELSE testSet(<<b>>, a.semver))
    ELSE IF b.operator = "" THEN
        (IF b.any THEN TRUE
         ELSE testSet(<<a>>, b.semver))
    ELSE
        LET aUp == a.operator \in {">=", ">"}
            bUp == b.operator \in {">=", ">"}
            aDown == a.operator \in {"<=", "<"}
            bDown == b.operator \in {"<=", "<"}
            sameSemVer == VersionString(a.semver) = VersionString(b.semver)
            inclusive == a.operator \in {">=", "<="} /\ b.operator \in {">=", "<="}
        IN  \/ aUp /\ bUp
            \/ aDown /\ bDown
            \/ sameSemVer /\ inclusive
            \/ cmp(a.semver, "<", b.semver) /\ aUp /\ bDown
            \/ cmp(a.semver, ">", b.semver) /\ aDown /\ bUp

isSatisfiable(set) ==
    \A i \in 1..Len(set) : \A j \in 1..(i - 1) : comparatorIntersects(set[i], set[j])

rangeIntersects(a, b) ==
        /\ a.valid /\ b.valid
        /\ \E i \in 1..Len(a.set) :
            /\ isSatisfiable(a.set[i])
            /\ \E j \in 1..Len(b.set) :
                /\ isSatisfiable(b.set[j])
                /\ \A x \in 1..Len(a.set[i]) : \A y \in 1..Len(b.set[j]) :
                       comparatorIntersects(a.set[i][x], b.set[j][y])

semverIntersects(r1, r2) == rangeIntersects(Range(r1), Range(r2))

(***************************************************************************)
(* semver-intersect.                                                       *)
(***************************************************************************)
NoError == [name |-> "", message |-> <<>>]

\* new Error(`Range ${range} is not compatible with ${bound}`)
IncompatibleError(range, bound) ==
    [name |-> "Error",
     message |-> <<"Range", " ">> \o range \o <<" ", "is not compatible with", " ">> \o bound]

\* What the runtime throws for null.split(...) and for null[1].
TypeError == [name |-> "TypeError", message |-> <<"Cannot read properties of null">>]

\* regex.condition: /^([<=>]+)?/
regexCondition(range) == IF Len(range) > 0 /\ range[1] \in CondToks THEN <<range[1]>> ELSE <<>>

\* [\d]+\.[\d]+\.[\d]+(?:-[\w.]+)? matching all of v
regexVersionMatches(v) ==
    \/ IsMainVersion(v)
    \/ /\ Len(v) >= 7
       /\ IsMainVersion(SubSeq(v, 1, 5))
       /\ v[6] = "-"
       /\ \A i \in 7..Len(v) : v[i] \in WordToks \cup {"."}

\* regex.version: /([\d]+\.[\d]+\.[\d]+(?:-[\w.]+)?)$/, the left-most match.
regexVersionStarts(range) == {i \in 1..Len(range) : regexVersionMatches(Tail2(range, i))}

regexVersion(range) ==
    LET i == CHOOSE k \in regexVersionStarts(range) : \A j \in regexVersionStarts(range) : k <= j
    IN  Tail2(range, i)

\* regex.x: /^x|X|\*$/ is (^x)|(X)|(\*$).
regexX(range) ==
    \/ Len(range) > 0 /\ range[1] \in {"x"}
    \/ \E i \in 1..Len(range) : range[i] \in {"X"}
    \/ Len(range) > 0 /\ range[Len(range)] = "*"

\* regex.minMax: /^>=(VERSION(?:-[\w.]+)?) <=?(VERSION)$/
regexMinMaxSplits(range) ==
    {k \in 3..Len(range) :
        /\ range[1] = ">="
        /\ range[k] = " "
        /\ k < Len(range) /\ range[k + 1] \in {"<", "<="}
        /\ regexVersionMatches(SubSeq(range, 2, k - 1))
        /\ IsMainVersion(Tail2(range, k + 2))}

\* parseRange; threw: regex.version.exec(range) is null and reading [1] throws.
parseRange(range) ==
    IF regexVersionStarts(range) = {}
    THEN [threw |-> TRUE, condition |-> "=", version |-> <<>>, prerelease |-> <<>>]
    ELSE [threw |-> FALSE,
          condition |-> IF regexCondition(range) = <<>> THEN "=" ELSE regexCondition(range)[1],
          version |-> regexVersion(range),
          prerelease |-> IF IsFullVersion(regexVersion(range))
                         THEN semverPrerelease(regexVersion(range)) ELSE <<>>]

\* createShorthand without the special handling of major version 0.
createShorthandNoZeroMajor(range) ==
    IF regexMinMaxSplits(range) = {} THEN range
    ELSE
        LET k == CHOOSE i \in regexMinMaxSplits(range) : TRUE
            min == SubSeq(range, 2, k - 1)
            max == Tail2(range, k + 2)
        IN  IF min = max THEN min
            ELSE IF \E i \in 1..Len(range) : range[i] = "<=" THEN min \o <<" ", "-", " ">> \o max
            ELSE IF semverMajor(min) # semverMajor(max) THEN
                (IF semverMajor(min) = 0 THEN <<"0">> ELSE <<"^">> \o min)
            ELSE <<"~">> \o min

\* createShorthand with the '=' of an inclusive maximum dropped instead of the
\* range being written with a hyphen.
createShorthandDropsInclusive(range) ==
    IF regexMinMaxSplits(range) = {} THEN range
    ELSE
        LET k == CHOOSE i \in regexMinMaxSplits(range) : TRUE
            min == SubSeq(range, 2, k - 1)
            max == Tail2(range, k + 2)
        IN  IF min = max THEN min
            ELSE IF \E i \in 1..Len(range) : range[i] = "<=" THEN <<">=">> \o min \o <<" ", "<">> \o max
            ELSE IF semverMajor(min) = 0 /\ semverMajor(max) = 0 THEN
                (IF semverMinor(min) = 0 /\ semverMinor(max) = 0 THEN <<"^">> \o min
                 ELSE IF semverMinor(min) = 0 THEN <<"~">> \o min
                 ELSE <<"^">> \o min)
            ELSE IF semverMajor(min) # semverMajor(max) THEN
                (IF semverMajor(min) = 0 THEN <<"0">> ELSE <<"^">> \o min)
            ELSE <<"~">> \o min

createShorthand(range) ==
    IF regexMinMaxSplits(range) = {} THEN range
    ELSE
        LET k == CHOOSE i \in regexMinMaxSplits(range) : TRUE
            min == SubSeq(range, 2, k - 1)
            max == Tail2(range, k + 2)
        IN  IF min = max THEN min
            ELSE IF \E i \in 1..Len(range) : range[i] = "<=" THEN min \o <<" ", "-", " ">> \o max
            ELSE IF semverMajor(min) = 0 /\ semverMajor(max) = 0 THEN
                (IF semverMinor(min) = 0 /\ semverMinor(max) = 0 THEN <<"^">> \o min
                 ELSE IF semverMinor(min) = 0 THEN <<"~">> \o min
                 ELSE <<"^">> \o min)
            ELSE IF semverMajor(min) # semverMajor(max) THEN
                (IF semverMajor(min) = 0 THEN <<"0">> ELSE <<"^">> \o min)
            ELSE <<"~">> \o min

\* compatible without semver.intersects: point containment only.
compatibleBySatisfies(range, bound) ==
    LET parsed == parseRange(range)
    IN  \/ bound = <<>>
        \/ semverSatisfies(parsed.version, bound)
        \/ /\ Len(parsed.prerelease) > 0
           /\ IF Len(parseRange(bound).prerelease) > 0
              THEN semverSatisfies(parseRange(bound).version, range)
              ELSE semverSatisfies(parsed.version, range \o <<" ">> \o bound)

\* compatible without the if (prerelease) block.
compatibleGeneralOnly(range, bound) ==
    \/ bound = <<>>
    \/ semverSatisfies(parseRange(range).version, bound) /\ semverIntersects(range, bound)

\* The body of ensureCompatible's forEach for one bound: TRUE when it returns,
\* FALSE when it throws.
compatible(range, bound) ==
    LET parsed == parseRange(range)
    IN  \/ bound = <<>>
        \/ semverSatisfies(parsed.version, bound) /\ semverIntersects(range, bound)
        \/ /\ Len(parsed.prerelease) > 0
           /\ IF Len(parseRange(bound).prerelease) > 0
              THEN semverSatisfies(parseRange(bound).version, range)
              ELSE semverSatisfies(parsed.version, range \o <<" ">> \o bound)

\* ensureCompatible(range, ...bounds): the error it throws, NoError when it
\* returns.
RECURSIVE ensureCompatible(_, _)
ensureCompatible(range, bounds) ==
    IF parseRange(range).threw THEN TypeError
    ELSE IF Len(bounds) = 0 THEN NoError
    ELSE IF ~compatible(range, bounds[1]) THEN IncompatibleError(range, bounds[1])
    ELSE ensureCompatible(range, Tail(bounds))

\* mergeBounds with the new clause always taken.
mergeBoundsTakesNew(range, bound) == range

\* mergeBounds without the tie-break on equal versions.
mergeBoundsNoTie(range, bound) ==
    IF bound = <<>> THEN range
    ELSE
        LET condition == parseRange(range).condition
            version == parseRange(range).version
            boundingVersion == parseRange(bound).version
        IN  IF condition \in {"<", "<="}
            THEN (IF semverLt(version, boundingVersion) THEN range ELSE bound)
            ELSE (IF semverGt(version, boundingVersion) THEN range ELSE bound)

mergeBounds(range, bound) ==
    IF bound = <<>> THEN range
    ELSE
        LET condition == parseRange(range).condition
            version == parseRange(range).version
            boundingVersion == parseRange(bound).version
            tighter == IF condition \in {"<", "<="}
                       THEN semverLt(version, boundingVersion)
                       ELSE semverGt(version, boundingVersion)
            strict == condition = "<" \/ condition = ">"
        IN  IF tighter THEN range
            ELSE IF strict /\ semverEq(version, boundingVersion) THEN range
            ELSE bound

coerceRange(range) == IF regexX(range) THEN <<">=", "0", ".", "0", ".", "0">> ELSE range

\* [...new Set(a)]: the first occurrences, in order.
RECURSIVE distinct(_)
distinct(a) ==
    IF Len(a) = 0 THEN <<>>
    ELSE LET init == distinct(SubSeq(a, 1, Len(a) - 1))
         IN  IF \E i \in 1..Len(init) : init[i] = a[Len(a)] THEN init ELSE Append(init, a[Len(a)])

\* The DNF of one argument; threw: validRange returned null and .split throws.
mapCoerceRange(simpleRanges) == [j \in 1..Len(simpleRanges) |-> coerceRange(simpleRanges[j])]

expandParts(parts) == [i \in 1..Len(parts) |-> distinct(mapCoerceRange(Split(parts[i], " ")))]

expandValidRange(validRange) ==
    IF validRange.null THEN [threw |-> TRUE, value |-> <<>>]
    ELSE [threw |-> FALSE, value |-> expandParts(Split(validRange.str, "||"))]

expandRange(range) == expandValidRange(semverValidRange(range))

expandRanges(ranges) ==
    [threw |-> \E i \in 1..Len(ranges) : expandRange(ranges[i]).threw,
     value |-> [i \in 1..Len(ranges) |-> expandRange(ranges[i]).value]]

formatIntersection(bound) ==
    IF bound.lowerBound = bound.upperBound THEN bound.lowerBound
    ELSE Trim(bound.lowerBound \o <<" ">> \o bound.upperBound)

\* updateBounds: error is what it throws (NoError when it returns), bound what
\* it returns.
\* updateBoundsPlan with every clause, tagged or not, checked against both
\* bounds first.
updateBoundsPlanBothSides(bound, range, parsed) ==
    LET condition == parsed.condition
        lower == condition \in {">", ">="}
        upper == condition \in {"<", "<="}
        lowerBound2 == IF condition = "=" THEN <<">=">> \o range ELSE bound.lowerBound
        upperBound2 == IF condition = "=" THEN <<"<=">> \o range ELSE bound.upperBound
        lowerBound3 == IF lower THEN mergeBounds(range, lowerBound2) ELSE lowerBound2
        upperBound4 == IF upper THEN mergeBounds(range, upperBound2) ELSE upperBound2
    IN  [checks |-> <<bound.lowerBound, bound.upperBound>>
                    \o (IF condition = "=" THEN <<bound.lowerBound, bound.upperBound>> ELSE <<>>)
                    \o (IF lower THEN <<upperBound2>> ELSE <<>>)
                    \o (IF upper THEN <<lowerBound3>> ELSE <<>>),
         bound |-> [lowerBound |-> lowerBound3, upperBound |-> upperBound4]]

\* The bounds updateBounds hands to ensureCompatible, call after call, and the
\* bounds it would return; the first call that throws ends it.
updateBoundsPlan(bound, range, parsed) ==
    LET condition == parsed.condition
        lower == condition \in {">", ">="}
        upper == condition \in {"<", "<="}
        lowerBound2 == IF condition = "=" THEN <<">=">> \o range ELSE bound.lowerBound
        upperBound2 == IF condition = "=" THEN <<"<=">> \o range ELSE bound.upperBound
        lowerBound3 == IF lower THEN mergeBounds(range, lowerBound2) ELSE lowerBound2
        upperBound4 == IF upper THEN mergeBounds(range, upperBound2) ELSE upperBound2
    IN  [checks |-> (IF Len(parsed.prerelease) > 0
                     THEN <<bound.lowerBound, bound.upperBound>> ELSE <<>>)
                    \o (IF condition = "=" THEN <<bound.lowerBound, bound.upperBound>> ELSE <<>>)
                    \o (IF lower THEN <<upperBound2>> ELSE <<>>)
                    \o (IF upper THEN <<lowerBound3>> ELSE <<>>),
         bound |-> [lowerBound |-> lowerBound3, upperBound |-> upperBound4]]

\* What a callback leaves: the error it threw and the bound it was given, or
\* the bound it returned.
Outcome(thrown, before, after) ==
    IF thrown # NoError THEN [error |-> thrown, bound |-> before]
    ELSE [error |-> NoError, bound |-> after]

updateBoundsChecked(bound, range, plan) ==
    Outcome(ensureCompatible(range, plan.checks), bound, plan.bound)

updateBounds(bound, range) ==
    updateBoundsChecked(bound, range, updateBoundsPlan(bound, range, parseRange(range)))

\* ranges.reduce(updateBounds, bound)
RECURSIVE reduceUpdateBounds(_, _)
RECURSIVE reduceFrom(_, _)
reduceUpdateBounds(bound, ranges) ==
    IF Len(ranges) = 0 THEN [error |-> NoError, bound |-> bound]
    ELSE reduceFrom(updateBounds(bound, ranges[1]), Tail(ranges))

\* The rest of the reduce after one call of updateBounds left r.
reduceFrom(r, ranges) ==
    IF r.error # NoError THEN r ELSE reduceUpdateBounds(r.bound, ranges)

RECURSIVE allPairs(_, _)
allPairs(arr1, arr2) ==
    IF Len(arr1) = 0 THEN <<>>
    ELSE [j \in 1..Len(arr2) |-> <<arr1[1], arr2[j]>>] \o allPairs(Tail(arr1), arr2)

(***************************************************************************)
(* The inputs of the model.                                                *)
(***************************************************************************)
V(M, m, p) == <<NumTok[M], ".", NumTok[m], ".", NumTok[p]>>

\* intersect is called with ranges over these versions.
PlainVersions == {V(M, m, 0) : M \in 0..MaxMajor, m \in 0..MaxMinor}
TaggedVersions == {V(MaxMajor, m, 0) \o <<"-", "alpha">> : m \in 0..MaxMinor}
InputVersions == PlainVersions \cup TaggedVersions

Sugar == {<<>>, <<"^">>, <<"~">>, <<">=">>, <<">">>, <<"<">>, <<"<=">>}

SimpleRanges == {op \o v : op \in Sugar, v \in InputVersions} \cup {<<"*">>}
CaretRanges == {<<"^">> \o v : v \in PlainVersions}
UnionMembers ==
    {<<"^">> \o V(M, 0, 0) : M \in 0..MaxMajor}
    \cup {<<"^">> \o V(MaxMajor, m, 0) : m \in 1..MaxMinor}
    \cup {<<"*">>}
UnionRanges == {a \o <<" ", "||", " ">> \o b : a \in UnionMembers, b \in UnionMembers}
InvalidRanges == {<<"latest">>}

Ranges == SimpleRanges \cup UnionRanges \cup InvalidRanges

ArgLists ==
    {<<>>}
    \cup {<<a>> : a \in Ranges}
    \cup {<<a, b>> : a \in Ranges, b \in Ranges}
    \cup {<<a, b, c>> : a \in UnionRanges, b \in CaretRanges, c \in CaretRanges}

\* The versions the meaning of a range is sampled on.
SampleVersions ==
    LET main == {V(M, m, p) : M \in 0..(MaxMajor + 1), m \in 0..(MaxMinor + 1), p \in 0..MaxPatch}
    IN  main \cup {v \o <<"-", t>> : v \in main, t \in {"alpha", "beta"}}

\* createShorthand is called with these strings.
ShorthandVersions == {V(M, m, p) : M \in 0..MaxMajor, m \in 0..MaxMinor, p \in 0..MaxPatch}
MinMaxInputs ==
    {<<">=">> \o min \o <<" ", op>> \o max :
        min \in ShorthandVersions \cup {v \o <<"-", "alpha">> : v \in ShorthandVersions},
        op \in {"<", "<="},
        max \in ShorthandVersions}
OtherInputs ==
    SimpleRanges
    \cup {<<>>, <<"0">>}
    \cup {<<">">> \o min \o <<" ", "<">> \o max : min \in PlainVersions, max \in PlainVersions}
    \cup {min \o <<" ", "-", " ">> \o max : min \in PlainVersions, max \in PlainVersions}
    \cup {<<">=">> \o min \o <<" ", "<">> \o max \o <<"-", "alpha">> :
              min \in PlainVersions, max \in PlainVersions}
ShorthandInputs == MinMaxInputs \cup OtherInputs

(***************************************************************************)
(* intersect(...ranges), one action per iteration of its reduce.           *)
(***************************************************************************)
EmptyBound == [lowerBound |-> <<>>, upperBound |-> <<>>]

Init ==
    /\ pc = "idle"
    /\ args = <<>>
    /\ rangeUnions = <<>>
    /\ index = 0
    /\ boundsUnion = <<>>
    /\ intermediate = <<>>
    /\ error = NoError
    /\ result = <<>>

\* Call with the accumulator of the reduce kept from the call before instead
\* of the fresh [{}].
CallKeepsBounds(a) ==
    /\ pc = "idle"
    /\ args' = a
    /\ intermediate' = <<>>
    /\ result' = <<>>
    /\ IF expandRanges(a).threw
       THEN /\ pc' = "thrown"
            /\ error' = TypeError
            /\ UNCHANGED <<rangeUnions, index, boundsUnion>>
       ELSE /\ pc' = "reduce"
            /\ error' = NoError
            /\ rangeUnions' = expandRanges(a).value
            /\ index' = 1
            /\ boundsUnion' = IF boundsUnion = <<>> THEN <<EmptyBound>> ELSE boundsUnion

\* const rangeUnions = expandRanges(...ranges), and the reduce's initial value.
Call(a) ==
    /\ pc = "idle"
    /\ args' = a
    /\ intermediate' = <<>>
    /\ result' = <<>>
    /\ IF expandRanges(a).threw
       THEN /\ pc' = "thrown"
            /\ error' = TypeError
            /\ UNCHANGED <<rangeUnions, index, boundsUnion>>
       ELSE /\ pc' = "reduce"
            /\ error' = NoError
            /\ rangeUnions' = expandRanges(a).value
            /\ index' = 1
            /\ boundsUnion' = <<EmptyBound>>

\* The .map with an updateBounds that writes into the bound pair it is given:
\* every fold after the first starts from what the fold before left.
RECURSIVE mapReduceInPlace(_)
mapReduceInPlace(pairs) ==
    IF Len(pairs) <= 1
    THEN [i \in 1..Len(pairs) |-> reduceUpdateBounds(pairs[i][1], pairs[i][2])]
    ELSE LET init == mapReduceInPlace(SubSeq(pairs, 1, Len(pairs) - 1))
         IN  Append(init, reduceUpdateBounds(init[Len(init)].bound, pairs[Len(pairs)][2]))

\* The .map over allPairs(boundsUnion, rangeUnion): for every pair what the
\* fold returned, or the error the catch block saw.
mapReduce(pairs) == [i \in 1..Len(pairs) |-> reduceUpdateBounds(pairs[i][1], pairs[i][2])]

mapPairs(bounds, rangeUnion) == mapReduce(allPairs(bounds, rangeUnion))

Failed(r) == r.error # NoError
Survived(r) == r.error = NoError

\* filterBoolean when a failed fold is not caught: one failure leaves nothing.
filterBooleanAborts(mapped) ==
    IF \E i \in 1..Len(mapped) : Failed(mapped[i]) THEN <<>>
    ELSE [i \in 1..Len(mapped) |-> mapped[i].bound]

\* .filter(Boolean)
filterBoolean(mapped) ==
    LET kept == SelectSeq(mapped, Survived)
    IN  [i \in 1..Len(kept) |-> kept[i].bound]

\* firstError with error = e in place of error ??= e: the last error caught.
lastError(mapped) ==
    LET i == CHOOSE k \in 1..Len(mapped) :
                 Failed(mapped[k]) /\ \A j \in (k + 1)..Len(mapped) : ~Failed(mapped[j])
    IN  mapped[i].error

\* error ??= e: the first error caught.
firstError(mapped) ==
    LET i == CHOOSE k \in 1..Len(mapped) :
                 Failed(mapped[k]) /\ \A j \in 1..(k - 1) : ~Failed(mapped[j])
    IN  mapped[i].error

\* The reduce callback without the throw on an empty intermediate array.
StepNeverThrows ==
    /\ pc = "reduce"
    /\ index <= Len(rangeUnions)
    /\ intermediate' = mapPairs(boundsUnion, rangeUnions[index])
    /\ boundsUnion' = filterBoolean(intermediate')
    /\ index' = index + 1
    /\ UNCHANGED <<pc, error, args, rangeUnions, result>>

\* One call of the reduce callback, for rangeUnions[index].
Step ==
    /\ pc = "reduce"
    /\ index <= Len(rangeUnions)
    /\ intermediate' = mapPairs(boundsUnion, rangeUnions[index])
    /\ IF Len(filterBoolean(intermediate')) = 0
       THEN /\ pc' = "thrown"
            /\ error' = firstError(intermediate')
            /\ UNCHANGED <<boundsUnion, index>>
       ELSE /\ boundsUnion' = filterBoolean(intermediate')
            /\ index' = index + 1
            /\ UNCHANGED <<pc, error>>
    /\ UNCHANGED <<args, rangeUnions, result>>

\* resultUnion.map(...).join(' || ')
formatUnion(bounds) ==
    Join([i \in 1..Len(bounds) |-> createShorthand(formatIntersection(bounds[i]))],
         <<" ", "||", " ">>)

Return ==
    /\ pc = "reduce"
    /\ index > Len(rangeUnions)
    /\ result' = formatUnion(boundsUnion)
    /\ pc' = "returned"
    /\ UNCHANGED <<args, rangeUnions, index, boundsUnion, intermediate, error>>

Next ==
    \/ \E a \in ArgLists : Call(a)
    \/ Step
    \/ Return

Spec == Init /\ [][Next]_vars

\* intersect as a function of its arguments: what it returns or throws.
RECURSIVE reduceUnions(_, _, _)
reduceUnions(bounds, unions, i) ==
    IF i > Len(unions) THEN [error |-> NoError, value |-> formatUnion(bounds)]
    ELSE LET mapped == mapPairs(bounds, unions[i])
         IN  IF Len(filterBoolean(mapped)) = 0
             THEN [error |-> firstError(mapped), value |-> <<>>]
             ELSE reduceUnions(filterBoolean(mapped), unions, i + 1)

intersect(ranges) ==
    IF expandRanges(ranges).threw THEN [error |-> TypeError, value |-> <<>>]
    ELSE reduceUnions(<<EmptyBound>>, expandRanges(ranges).value, 1)

(***************************************************************************)
(* intersect called again and again.                                       *)
(***************************************************************************)
\* The arguments of the calls of a sequence.
CallLists ==
    {<<a>> : a \in CaretRanges \cup InvalidRanges}
    \cup {<<a, b>> : a \in UnionRanges, b \in CaretRanges}

\* The call is over: its caller has the string or the error, and what the
\* locals held is never read again.
Finish ==
    /\ pc \in {"returned", "thrown"}
    /\ pc' = "idle"
    /\ UNCHANGED <<args, rangeUnions, index, boundsUnion, intermediate, error, result>>

NextCalls ==
    \/ \E a \in CallLists : Call(a)
    \/ Step
    \/ Return
    \/ Finish

SpecCalls == Init /\ [][NextCalls]_vars

(***************************************************************************)
(* createShorthand called on its own.                                      *)
(***************************************************************************)
Shorthand(x) ==
    /\ pc = "idle"
    /\ args' = <<x>>
    /\ result' = createShorthand(x)
    /\ pc' = "shorthand"
    /\ UNCHANGED <<rangeUnions, index, boundsUnion, intermediate, error>>

NextShorthand == \E x \in ShorthandInputs : Shorthand(x)

SpecShorthand == Init /\ [][NextShorthand]_vars

(***************************************************************************)
(* mergeBounds and ensureCompatible called on their own.                   *)
(***************************************************************************)
\* The versions of the comparators they are called with.
BoundVersions ==
    PlainVersions
    \cup {V(MaxMajor, m, 0) \o <<"-", t>> : m \in 0..MaxMinor, t \in {"alpha", "beta"}}

LowerClauses == {<<op>> \o v : op \in {">", ">="}, v \in BoundVersions}
UpperClauses == {<<op>> \o v : op \in {"<", "<="}, v \in BoundVersions}
ExactClauses == BoundVersions

\* updateBounds merges a clause with the bound of its own side.
MergeInputs ==
    {<<r, b>> : r \in LowerClauses, b \in LowerClauses \cup {<<>>}}
    \cup {<<r, b>> : r \in UpperClauses, b \in UpperClauses \cup {<<>>}}

Merge(range, bound) ==
    /\ pc = "idle"
    /\ args' = <<range, bound>>
    /\ result' = mergeBounds(range, bound)
    /\ pc' = "merge"
    /\ UNCHANGED <<rangeUnions, index, boundsUnion, intermediate, error>>

NextMerge == \E a \in MergeInputs : Merge(a[1], a[2])

SpecMerge == Init /\ [][NextMerge]_vars

\* updateBounds checks a clause against either bound.
EnsureInputs ==
    {<<r, b>> : r \in LowerClauses \cup UpperClauses \cup ExactClauses,
                b \in LowerClauses \cup UpperClauses \cup {<<>>}}

Ensure(range, bound) ==
    /\ pc = "idle"
    /\ args' = <<range, bound>>
    /\ error' = ensureCompatible(range, <<bound>>)
    /\ pc' = "ensure"
    /\ UNCHANGED <<rangeUnions, index, boundsUnion, intermediate, result>>

NextEnsure == \E a \in EnsureInputs : Ensure(a[1], a[2])

SpecEnsure == Init /\ [][NextEnsure]_vars

(***************************************************************************)
(* parseRange called on its own.                                           *)
(***************************************************************************)
\* The pre-release tags of the comparators it is called with.
ParseTags == {<<>>, <<"-", "alpha">>, <<"-", "beta">>, <<"-", "beta2">>, <<"-", "beta", ".", "2">>}

ParseInputs ==
    {op \o v \o t : op \in {<<>>, <<">">>, <<">=">>, <<"<">>, <<"<=">>},
                    v \in ShorthandVersions, t \in ParseTags}

\* intermediate holds the object parseRange returned.
Parse(range) ==
    /\ pc = "idle"
    /\ args' = <<range>>
    /\ intermediate' = <<parseRange(range)>>
    /\ pc' = "parse"
    /\ UNCHANGED <<rangeUnions, index, boundsUnion, error, result>>

NextParse == \E range \in ParseInputs : Parse(range)

SpecParse == Init /\ [][NextParse]_vars

(***************************************************************************)
(* expandRanges called on its own with one range.                          *)
(***************************************************************************)
\* The pre-release tags of the ranges it is called with.
ExpandTags == {<<>>, <<"-", "alpha">>, <<"-", "x">>, <<"-", "X">>}

ExpandInputs ==
    {op \o v \o t : op \in Sugar, v \in PlainVersions, t \in ExpandTags}
    \cup {<<"*">>, <<"x">>, <<"X">>}

\* rangeUnions holds the array expandRanges returned.
Expand(range) ==
    /\ pc = "idle"
    /\ args' = <<range>>
    /\ rangeUnions' = expandRanges(<<range>>).value
    /\ error' = IF expandRanges(<<range>>).threw THEN TypeError ELSE NoError
    /\ pc' = "expand"
    /\ UNCHANGED <<index, boundsUnion, intermediate, result>>

NextExpand == \E range \in ExpandInputs : Expand(range)

SpecExpand == Init /\ [][NextExpand]_vars

(***************************************************************************)
(* Properties.                                                             *)
(***************************************************************************)
Terminal == pc \in {"returned", "thrown"}

SatisfiesAll(v, ranges) == \A i \in 1..Len(ranges) : semverSatisfies(v, ranges[i])

\* The members of a raw union, as written.
Members(range) == LET ms == Split(range, "||") IN [i \in 1..Len(ms) |-> Trim(ms[i])]

\* The fold of the k-th pair of the step about to run, in pair order: the
\* running union outermost, the conjunctions of the new range innermost.
PairCount == Len(boundsUnion) * Len(rangeUnions[index])
PairFold(k) ==
    LET n == Len(rangeUnions[index])
    IN  reduceUpdateBounds(boundsUnion[((k - 1) \div n) + 1], rangeUnions[index][((k - 1) % n) + 1])

\* C1: when intersect(A, B) returns, the versions that satisfy the returned
\* string are exactly the versions that satisfy both A and B.
C1_Narrowing ==
    (pc = "returned" /\ Len(args) = 2) =>
        \A v \in SampleVersions : semverSatisfies(v, result) <=> SatisfiesAll(v, args)

\* C2: intersect fails if and only if no version satisfies every input range.
C2_Unsatisfiable ==
    (Terminal /\ Len(args) > 0) =>
        (pc = "thrown" <=> ~\E v \in SampleVersions : SatisfiesAll(v, args))

\* C3: when intersect(A, B) returns, intersect(B, A) returns the same string.
C3_Commutative ==
    (pc = "returned" /\ Len(args) = 2) =>
        intersect(<<args[2], args[1]>>) = [error |-> NoError, value |-> result]

\* C4: a version satisfies intersect('A || B', C) exactly when it satisfies
\* (A and C) or (B and C), and the result has one branch per satisfiable
\* combination of a member of the union and a member of C.
C4_UnionDistributes ==
    (pc = "returned" /\ Len(args) = 2 /\ args[1] \in UnionRanges) =>
        /\ \A v \in SampleVersions :
               semverSatisfies(v, result) <=>
                   \E i \in 1..Len(Members(args[1])) :
                       semverSatisfies(v, Members(args[1])[i]) /\ semverSatisfies(v, args[2])
        /\ Len(boundsUnion) =
               Cardinality({c \in (1..Len(Members(args[1]))) \X (1..Len(Members(args[2]))) :
                   \E v \in SampleVersions :
                       /\ semverSatisfies(v, Members(args[1])[c[1]])
                       /\ semverSatisfies(v, Members(args[2])[c[2]])})

\* C5: for an input '>=MIN <MAX' or '>=MIN <=MAX', the string createShorthand
\* returns is satisfied by exactly the versions that satisfy the input.
C5_ShorthandEquivalent ==
    (pc = "shorthand" /\ args[1] \in MinMaxInputs) =>
        \A v \in SampleVersions : semverSatisfies(v, result) <=> semverSatisfies(v, args[1])

\* C6: createShorthand(createShorthand(x)) = createShorthand(x).
C6_ShorthandIdempotent == pc = "shorthand" => createShorthand(result) = result

\* C6 witness: createShorthand has rewritten a '>=MIN <MAX' input.
C6_Witness == pc = "shorthand" /\ args[1] \in MinMaxInputs /\ result # args[1] /\ result[1] = "~"

\* C7: intersect(R, R) returns the same string as intersect(R).
C7_SelfIntersection ==
    (Terminal /\ Len(args) = 2 /\ args[1] = args[2] /\ intersect(<<args[1]>>).error = NoError) =>
        pc = "returned" /\ result = intersect(<<args[1]>>).value

\* 'Range <clause> is not compatible with <bound>', the clause a comparator
\* string of a normalized input, the bound not empty.
IsIncompatibleMessage(m) ==
    \E i \in 1..Len(rangeUnions) : \E j \in 1..Len(rangeUnions[i]) :
        \E k \in 1..Len(rangeUnions[i][j]) :
            LET head == <<"Range", " ">> \o rangeUnions[i][j][k] \o <<" ", "is not compatible with", " ">>
            IN  /\ Len(m) > Len(head)
                /\ SubSeq(m, 1, Len(head)) = head
                /\ Len(rangeUnions[i][j][k]) > 0

\* C8: every failure of intersect is an Incompatible Range error with the
\* message 'Range <newClause> is not compatible with <bound>'.
C8_SingleErrorKind == pc = "thrown" => error.name = "Error" /\ IsIncompatibleMessage(error.message)

\* C9: in every step of the reduce, the pairs whose fold fails are dropped and
\* the others kept in pair order; the step fails if and only if every pair fails.
C9_BranchIsolation ==
    [][(pc = "reduce" /\ index <= Len(rangeUnions)) =>
          LET kept == {k \in 1..PairCount : Survived(PairFold(k))}
          IN  /\ pc' = "thrown" <=> kept = {}
              /\ pc' # "thrown" =>
                     /\ Len(boundsUnion') = Cardinality(kept)
                     /\ \A k \in kept :
                            boundsUnion'[Cardinality({j \in kept : j <= k})] = PairFold(k).bound]_vars

\* C9 witness: a step in which one pair failed and another survived, after
\* which the computation went on.
C9_Witness ==
    /\ pc \in {"reduce", "returned"}
    /\ \E i, j \in 1..Len(intermediate) :
           /\ intermediate[i].error.name = "Error"
           /\ Survived(intermediate[j])

\* C10: when every pair of a step fails, the error thrown is the error of the
\* first pair in pair order, whatever failed in earlier steps.
C10_FirstError ==
    [][(pc = "reduce" /\ pc' = "thrown") =>
          /\ \A k \in 1..PairCount : Failed(PairFold(k))
          /\ error' = PairFold(1).error]_vars

\* C10 witness: intersect has thrown in its second step, whose pairs failed
\* with different errors, after a first step in which a pair failed too.
C10_Witness ==
    /\ pc = "thrown"
    /\ index = 2
    /\ Len(boundsUnion) < Len(rangeUnions[1])
    /\ Len(intermediate) >= 2
    /\ intermediate[1].error # intermediate[2].error
    /\ error = intermediate[1].error

\* Every sampled version that satisfies a also satisfies b, and some does.
Subsumes(a, b) ==
    /\ \E v \in SampleVersions : semverSatisfies(v, a)
    /\ \A v \in SampleVersions : semverSatisfies(v, a) => semverSatisfies(v, b)

\* C11: intersect('*', R) and intersect(R, '*') succeed exactly when
\* intersect(R) succeeds, and return the string intersect(R) returns.
C11_WildcardNeutral ==
    (Terminal /\ Len(args) = 2 /\ <<"*">> \in {args[1], args[2]}) =>
        LET R == IF args[1] = <<"*">> THEN args[2] ELSE args[1]
        IN  /\ pc = "returned" <=> intersect(<<R>>).error = NoError
            /\ pc = "returned" => result = intersect(<<R>>).value

\* C12: intersect(V) returns V for an exact version V, and intersect(V, R)
\* returns V for every range R that V satisfies.
C12_ExactBare ==
    (/\ Terminal
     /\ Len(args) \in {1, 2}
     /\ IsFullVersion(args[1])
     /\ Len(args) = 2 => semverSatisfies(args[1], args[2])) =>
        pc = "returned" /\ result = args[1]

\* C13: when intersect(A) returns and every version that satisfies A also
\* satisfies each of the other arguments, intersect returns the string
\* intersect(A) returns, wherever A stands among the arguments.
C13_Redundant ==
    (Terminal /\ Len(args) >= 2) =>
        \A a \in 1..Len(args) :
            (/\ intersect(<<args[a]>>).error = NoError
             /\ \A b \in 1..Len(args) : b # a => Subsumes(args[a], args[b])) =>
                pc = "returned" /\ result = intersect(<<args[a]>>).value

\* The versions a '>=MIN <MAX' input of createShorthand starts with.
MinVersions == ShorthandVersions \cup {v \o <<"-", "alpha">> : v \in ShorthandVersions}

\* The rule table for '>=MIN <MAX' (op "<") and '>=MIN <=MAX' (op "<="), top
\* to bottom.
ShorthandRule(min, op, max) ==
    IF min = max THEN min
    ELSE IF op = "<=" THEN min \o <<" ", "-", " ">> \o max
    ELSE IF Val(min[1]) = 0 /\ Val(max[1]) = 0 THEN
        (IF Val(min[3]) = 0 /\ Val(max[3]) = 0 THEN <<"^">> \o min
         ELSE IF Val(min[3]) = 0 THEN <<"~">> \o min
         ELSE <<"^">> \o min)
    ELSE IF Val(min[1]) # Val(max[1]) THEN
        (IF Val(min[1]) = 0 THEN <<"0">> ELSE <<"^">> \o min)
    ELSE <<"~">> \o min

\* C14: createShorthand returns what the rule table gives for an input
\* '>=MIN <MAX' or '>=MIN <=MAX', and every other input unchanged.
C14_ShorthandRules ==
    pc = "shorthand" =>
        IF args[1] \in MinMaxInputs
        THEN \E min \in MinVersions, op \in {"<", "<="}, max \in ShorthandVersions :
                 /\ args[1] = <<">=">> \o min \o <<" ", op>> \o max
                 /\ result = ShorthandRule(min, op, max)
        ELSE result = args[1]

\* C14 witness: the rule for differing majors with MIN's major 0 has fired.
C14_Witness == pc = "shorthand" /\ args[1] \in MinMaxInputs /\ result = <<"0">>

\* The operator and the version of a comparator string, and whether it
\* carries a pre-release tag.
OpOf(c) == IF c[1] \in CondToks THEN c[1] ELSE ""
VersionOf(c) == IF c[1] \in CondToks THEN Tail(c) ELSE c
HasTag(c) == \E i \in 1..Len(c) : c[i] = "-"
Strict(c) == OpOf(c) \in {">", "<"}

\* C15: mergeBounds returns one of its two arguments: the clause when the
\* bound is empty, else the one with the greater version for lower bounds
\* and with the lesser version for upper bounds, and on equal versions a
\* strict comparator if either is strict.
C15_MergeBounds ==
    pc = "merge" =>
        LET range == args[1]
            bound == args[2]
        IN  /\ result \in {range, bound}
            /\ bound = <<>> => result = range
            /\ bound # <<>> =>
                   LET c == compare(SemVer(VersionOf(range)), SemVer(VersionOf(bound)))
                       lower == OpOf(range) \in {">", ">="}
                   IN  /\ (IF lower THEN c > 0 ELSE c < 0) => result = range
                       /\ (IF lower THEN c < 0 ELSE c > 0) => result = bound
                       /\ (c = 0 /\ (Strict(range) \/ Strict(bound))) => Strict(result)

\* C15 witness: on equal versions the strict clause has replaced the
\* inclusive bound.
C15_Witness ==
    /\ pc = "merge"
    /\ args[2] # <<>>
    /\ VersionOf(args[1]) = VersionOf(args[2])
    /\ Strict(args[1]) /\ ~Strict(args[2])
    /\ result = args[1]

\* Two comparator strings overlap as ranges: an exact version lies within
\* the other comparator; two bounds of the same side always overlap; a lower
\* and an upper bound overlap when the lower version is the lesser, or when
\* the versions are equal and both comparators are inclusive.
Overlap(a, b) ==
    LET va == SemVer(VersionOf(a))
        vb == SemVer(VersionOf(b))
        aLower == OpOf(a) \in {">", ">="}
        bLower == OpOf(b) \in {">", ">="}
    IN  IF OpOf(a) \in {"", "="} THEN cmp(va, OpOf(b), vb)
        ELSE IF OpOf(b) \in {"", "="} THEN cmp(vb, OpOf(a), va)
        ELSE IF aLower = bLower THEN TRUE
        ELSE IF compare(va, vb) = 0 THEN ~Strict(a) /\ ~Strict(b)
        ELSE IF aLower THEN compare(va, vb) < 0
        ELSE compare(va, vb) > 0

\* C16: for a clause and a bound without pre-release tags, ensureCompatible
\* returns exactly when the bound is empty, or the clause's version satisfies
\* the bound and the two overlap as ranges; otherwise it throws 'Range
\* <clause> is not compatible with <bound>'.
C16_GeneralCompatibility ==
    (pc = "ensure" /\ ~HasTag(args[1]) /\ ~HasTag(args[2])) =>
        IF \/ args[2] = <<>>
           \/ /\ cmp(SemVer(VersionOf(args[1])), OpOf(args[2]), SemVer(VersionOf(args[2])))
              /\ Overlap(args[1], args[2])
        THEN error = NoError
        ELSE error = [name |-> "Error",
                      message |-> <<"Range", " ">> \o args[1]
                                  \o <<" ", "is not compatible with", " ">> \o args[2]]

\* C16 witness: a strict clause against the inclusive bound of the other
\* side on the same version has been refused.
C16_Witness ==
    /\ pc = "ensure"
    /\ ~HasTag(args[1])
    /\ args[2] # <<>>
    /\ VersionOf(args[1]) = VersionOf(args[2])
    /\ OpOf(args[1]) = ">" /\ OpOf(args[2]) = "<="
    /\ error.name = "Error"

\* The verdict on a tagged clause: general is whether the general check is
\* one of the ways to pass.
TaggedVerdict(range, bound, general) ==
    IF \/ bound = <<>>
       \/ general /\ semverSatisfies(VersionOf(range), bound) /\ Overlap(range, bound)
       \/ HasTag(bound) /\ semverSatisfies(VersionOf(bound), range)
       \/ ~HasTag(bound) /\ semverSatisfies(VersionOf(range), range \o <<" ">> \o bound)
    THEN NoError
    ELSE [name |-> "Error",
          message |-> <<"Range", " ">> \o range \o <<" ", "is not compatible with", " ">> \o bound]

\* C17, as stated: a clause with a pre-release tag passes exactly when the
\* bound is empty, or the bound's version is tagged and satisfies the clause,
\* or the bound is not tagged and the clause's version satisfies the clause
\* and the bound together; otherwise the incompatibility error is thrown.
C17_PrereleaseOnly ==
    (pc = "ensure" /\ HasTag(args[1])) => error = TaggedVerdict(args[1], args[2], FALSE)

\* C17, amended: a clause with a pre-release tag passes exactly when the
\* bound is empty, or the general check passes (the clause's version
\* satisfies the bound and the two overlap), or the bound's version is tagged
\* and satisfies the clause, or the bound is not tagged and the clause's
\* version satisfies the clause and the bound together; otherwise the
\* incompatibility error naming the clause and the bound is thrown.
C17_PrereleaseCompatibility ==
    (pc = "ensure" /\ HasTag(args[1])) => error = TaggedVerdict(args[1], args[2], TRUE)

\* C17 witness: a tagged clause has passed against a tagged bound whose
\* version does not satisfy it, on the general check alone.
C17_Witness ==
    /\ pc = "ensure"
    /\ HasTag(args[1])
    /\ HasTag(args[2])
    /\ ~semverSatisfies(VersionOf(args[2]), args[1])
    /\ error = NoError

\* The comparator strings of one '||' member of a range as the collaborator
\* normalizes it, in order and without duplicates; a wildcard member is the
\* single clause '>=0.0.0'.
MemberClauses(m) ==
    IF m = <<"*">> THEN <<<<">=">> \o V(0, 0, 0)>>
    ELSE LET set == Range(m).set[1]
         IN  distinct([k \in 1..Len(set) |-> ComparatorValue(set[k])])

\* C18: expandRanges returns one DNF per argument, in order; each DNF has one
\* conjunction per '||' member, in order; each conjunction is the member's
\* comparator strings without duplicates, '>=0.0.0' for a wildcard member.
C18_ExpandRanges ==
    (pc # "idle" /\ index > 0) =>
        /\ Len(rangeUnions) = Len(args)
        /\ \A i \in 1..Len(args) :
               /\ Len(rangeUnions[i]) = Len(Members(args[i]))
               /\ \A j \in 1..Len(Members(args[i])) :
                      rangeUnions[i][j] = MemberClauses(Members(args[i])[j])

\* A bound pair denotes a non-empty interval: with both bounds set, the lower
\* version is below the upper one, or equal to it with both comparators
\* inclusive.
NonEmptyInterval(bound) ==
    (bound.lowerBound # <<>> /\ bound.upperBound # <<>>) =>
        LET c == compare(SemVer(VersionOf(bound.lowerBound)), SemVer(VersionOf(bound.upperBound)))
        IN  \/ c < 0
            \/ c = 0 /\ ~Strict(bound.lowerBound) /\ ~Strict(bound.upperBound)

\* C19: every bound pair that survives a step of intersect denotes a
\* non-empty interval with its lower version at most its upper version.
C19_BoundsOrdered ==
    pc \in {"reduce", "returned"} =>
        \A i \in 1..Len(boundsUnion) : NonEmptyInterval(boundsUnion[i])

\* The letters and the digits of an identifier written without a dot.
LettersDigits(t) == IF t = "beta2" THEN <<"beta", "2">> ELSE <<t>>

\* A comparator with its one-identifier tag written with the dot.
Dotted(c) ==
    SubSeq(c, 1, Len(c) - 1)
    \o Join([i \in 1..Len(LettersDigits(c[Len(c)])) |-> <<LettersDigits(c[Len(c)])[i]>>], <<".">>)

\* C20: for a comparator whose tag is letters followed by digits without a
\* dot, parseRange returns the pre-release [letters, digits], and the checks
\* and merges treat the comparator as the one written with the dot.
C20_PrereleaseNormalized ==
    (pc = "parse" /\ args[1][Len(args[1])] = "beta2") =>
        /\ intermediate[1].prerelease = LettersDigits("beta2")
        /\ intermediate[1].prerelease = parseRange(Dotted(args[1])).prerelease
        /\ \A b \in LowerClauses \cup UpperClauses :
               compatible(args[1], b) <=> compatible(Dotted(args[1]), b)

\* C21: whatever calls came before, a call of intersect ends with what
\* intersect gives as a function of the call's arguments alone.
C21_CallsIndependent ==
    /\ pc = "returned" => intersect(args) = [error |-> NoError, value |-> result]
    /\ pc = "thrown" => intersect(args).error = error /\ error # NoError

\* C21 witness: a call with an invalid range has thrown after an earlier call
\* that failed in one of its steps, whose locals are still around.
C21_Witness ==
    /\ pc = "thrown"
    /\ args \in {<<a>> : a \in InvalidRanges}
    /\ index > 0
    /\ index <= Len(rangeUnions)

\* Two outcomes of intersect agree: both are failures, or both are strings
\* that the same sampled versions satisfy.
SameMeaning(o1, o2) ==
    /\ o1.error = NoError <=> o2.error = NoError
    /\ o1.error = NoError =>
           \A v \in SampleVersions : semverSatisfies(v, o1.value) <=> semverSatisfies(v, o2.value)

\* A union with its two members swapped; any other range as it is.
SwapMembers(range) ==
    IF Len(Members(range)) = 2
    THEN Members(range)[2] \o <<" ", "||", " ">> \o Members(range)[1]
    ELSE range

\* C22: intersect of two ranges fails or returns a string of the same
\* meaning when the two ranges are swapped, and when the members of a union
\* among them are swapped.
C22_OrderInsignificant ==
    (Terminal /\ Len(args) = 2) =>
        LET outcome == [error |-> error, value |-> result]
        IN  /\ SameMeaning(outcome, intersect(<<args[2], args[1]>>))
            /\ SameMeaning(outcome, intersect(<<SwapMembers(args[1]), SwapMembers(args[2])>>))

\* The clause and the bound that the message 'Range <clause> is not
\* compatible with <bound>' names.
Infix(m) == CHOOSE i \in 1..Len(m) : m[i] = "is not compatible with"
MessageClause(m) == SubSeq(m, 3, Infix(m) - 2)
MessageBound(m) == Tail2(m, Infix(m) + 2)

\* The bound of the message is on the other side than its clause, when the
\* clause is a '>', '>=', '<' or '<=' clause (tagged ones included or not).
NamesOpposingBound(m, tagged) ==
    LET clause == MessageClause(m)
        bound == MessageBound(m)
    IN  (tagged \/ ~HasTag(clause)) =>
            /\ OpOf(clause) \in {">", ">="} => OpOf(bound) \in {"<", "<="}
            /\ OpOf(clause) \in {"<", "<="} => OpOf(bound) \in {">", ">="}

\* C23, as stated: every incompatibility error raised while folding a clause
\* names a bound of the other side than the clause.
C23_OpposingBound ==
    \A k \in 1..Len(intermediate) :
        intermediate[k].error.name = "Error" =>
            NamesOpposingBound(intermediate[k].error.message, TRUE)

\* C23, amended: every incompatibility error raised while folding a clause
\* without a pre-release tag names a bound of the other side than the clause.
C23_OpposingBoundUntagged ==
    \A k \in 1..Len(intermediate) :
        intermediate[k].error.name = "Error" =>
            NamesOpposingBound(intermediate[k].error.message, FALSE)

\* C23 witness: a fold has failed on an untagged lower clause, and the error
\* names an upper bound.
C23_Witness ==
    \E k \in 1..Len(intermediate) :
        /\ pc \in {"reduce", "thrown", "returned"}
        /\ intermediate[k].error.name = "Error"
        /\ ~HasTag(MessageClause(intermediate[k].error.message))
        /\ OpOf(MessageClause(intermediate[k].error.message)) = ">="
        /\ OpOf(MessageBound(intermediate[k].error.message)) = "<"

\* Every argument is a single untagged range without '||'.
UntaggedSimple == \A i \in 1..Len(args) : args[i] \in SimpleRanges /\ ~HasTag(args[i])

\* The clauses of the first n expanded ranges, and the lower and upper
\* comparators they stand for: an exact version V is '>=V' and '<=V'.
FoldedClauses(n) ==
    UNION {{rangeUnions[i][1][k] : k \in 1..Len(rangeUnions[i][1])} : i \in 1..n}
FoldedLowers(n) ==
    {IF OpOf(c) = "" THEN <<">=">> \o c ELSE c : c \in {d \in FoldedClauses(n) : OpOf(d) \in {"", ">", ">="}}}
FoldedUppers(n) ==
    {IF OpOf(c) = "" THEN <<"<=">> \o c ELSE c : c \in {d \in FoldedClauses(n) : OpOf(d) \in {"", "<", "<="}}}

\* a is at least as tight as b, both lower or both upper comparators.
AsTight(a, b) ==
    LET c == compare(SemVer(VersionOf(a)), SemVer(VersionOf(b)))
    IN  \/ IF OpOf(a) \in {">", ">="} THEN c > 0 ELSE c < 0
        \/ c = 0 /\ (Strict(a) \/ ~Strict(b))

\* The tightest comparator of a set, the empty string for the empty set.
Tightest(set) ==
    IF set = {} THEN <<>> ELSE CHOOSE a \in set : \A b \in set : AsTight(a, b)

\* A lower and an upper bound leave room for a version.
PairOverlaps(lower, upper) == lower = <<>> \/ upper = <<>> \/ Overlap(lower, upper)

\* C24: for untagged single ranges, the bound pair after each step is the
\* tightest lower and the tightest upper comparator of the clauses folded so
\* far, and the step fails exactly when those two do not overlap.
C24_ExactFold ==
    (index > 0 /\ pc \in {"reduce", "returned", "thrown"} /\ UntaggedSimple) =>
        IF pc = "thrown"
        THEN ~PairOverlaps(Tightest(FoldedLowers(index)), Tightest(FoldedUppers(index)))
        ELSE /\ boundsUnion = <<[lowerBound |-> Tightest(FoldedLowers(index - 1)),
                                 upperBound |-> Tightest(FoldedUppers(index - 1))]>>
             /\ PairOverlaps(Tightest(FoldedLowers(index - 1)), Tightest(FoldedUppers(index - 1)))

\* C24 witness: two untagged ranges have been folded and the lower bound of
\* the first was kept against the looser lower bound of the second.
C24_Witness ==
    /\ pc = "returned"
    /\ UntaggedSimple
    /\ Len(args) = 2
    /\ Cardinality(FoldedLowers(2)) = 2
    /\ boundsUnion[1].lowerBound \in FoldedClauses(1)
    /\ \A k \in 1..Len(rangeUnions[2][1]) : rangeUnions[2][1][k] # boundsUnion[1].lowerBound
    /\ boundsUnion[1].upperBound # <<>>

\* The outcome of intersect on its own output for the first two arguments
\* and a third range c.
Nested(c) ==
    IF error = NoError THEN intersect(<<result, c>>) ELSE [error |-> error, value |-> <<>>]

\* C25: intersect(intersect(A, B), C) succeeds exactly when intersect(A, B, C)
\* succeeds, and then returns the same string.
C25_OutputReusable ==
    (Terminal /\ Len(args) = 2) =>
        \A c \in CaretRanges :
            LET flat == intersect(<<args[1], args[2], c>>)
                nested == Nested(c)
            IN  /\ nested.error = NoError <=> flat.error = NoError
                /\ nested.error = NoError => nested.value = flat.value

\* The comparators of a range without '||' as the collaborator parses it,
\* rendered as strings with '>=0.0.0' for the wildcard, without duplicates.
ConcreteClauses(range) ==
    LET set == Range(range).set[1]
    IN  distinct([k \in 1..Len(set) |->
                     IF set[k].any THEN <<">=">> \o V(0, 0, 0) ELSE ComparatorValue(set[k])])

\* C26: expandRanges replaces a comparator by '>=0.0.0' only when it is a
\* wildcard; a comparator that names a version, with or without a pre-release
\* tag, comes out unchanged.
C26_WildcardOnly ==
    pc = "expand" =>
        /\ error = NoError
        /\ rangeUnions = <<<<ConcreteClauses(args[1])>>>>

\* C27: in every step each pair is folded from the bound pair the running
\* union held before the step, whatever the folds of its siblings did, and a
\* step that fails leaves the running union as it was.
C27_FoldsFromOriginal ==
    [][(pc = "reduce" /\ index <= Len(rangeUnions)) =>
          /\ Len(intermediate') = PairCount
          /\ \A k \in 1..PairCount : intermediate'[k] = PairFold(k)
          /\ pc' = "thrown" => boundsUnion' = boundsUnion]_vars

\* C27 witness: one bound pair set by a first range was paired with the two
\* conjunctions of a second range; the first fold failed, the second went
\* through and tightened the pair.
C27_Witness ==
    /\ pc = "returned"
    /\ Len(args) = 2
    /\ Len(rangeUnions[1]) = 1
    /\ Len(rangeUnions[2]) = 2
    /\ Len(intermediate) = 2
    /\ intermediate[1].error.name = "Error"
    /\ Survived(intermediate[2])
    /\ intermediate[2].bound # intermediate[1].bound

\* The product of the numbers of '||' members of the first n arguments.
RECURSIVE BranchProduct(_)
BranchProduct(n) == IF n = 0 THEN 1 ELSE BranchProduct(n - 1) * Len(Members(args[n]))

\* C28: a step that does not fail leaves a non-empty running union of at most
\* (size before the step) x (conjunctions of the range) bound pairs, in pair
\* order; a returned result has between 1 and the product of the inputs'
\* branch counts branches, and intersect() returns the empty string.
C28_UnionSize ==
    /\ [][(pc = "reduce" /\ index <= Len(rangeUnions) /\ pc' # "thrown") =>
             /\ Len(boundsUnion') >= 1
             /\ Len(boundsUnion') <= Len(boundsUnion) * Len(rangeUnions[index])
             /\ \A i \in 1..Len(boundsUnion') :
                    \E k \in 1..PairCount : boundsUnion'[i] = PairFold(k).bound
             /\ \A i, j \in 1..Len(boundsUnion') :
                    i < j => \E k, l \in 1..PairCount :
                                 /\ k < l
                                 /\ boundsUnion'[i] = PairFold(k).bound
                                 /\ boundsUnion'[j] = PairFold(l).bound]_vars
    /\ [](pc = "returned" =>
             /\ Len(boundsUnion) >= 1
             /\ Len(boundsUnion) <= BranchProduct(Len(args))
             /\ result = formatUnion(boundsUnion)
             /\ Len(args) > 0 => Len(Split(result, "||")) = Len(boundsUnion)
             /\ Len(args) = 0 => result = <<>>)

\* C28 witness: intersect has returned two branches for two unions of two
\* members each, the other two combinations having failed.
C28_Witness ==
    /\ pc = "returned"
    /\ Len(args) = 2
    /\ BranchProduct(2) = 4
    /\ Len(boundsUnion) = 2
    /\ Len(Split(result, "||")) = 2

====
